---- MODULE Spec2Model ----
(***************************************************************************)
(* Reconciliation engine of the neon-operator: the five controllers        *)
(* (Cluster, Project, Branch, Safekeeper, Pageserver), the status          *)
(* synchronizer utils.SetPhases they share, the identifier self-patches    *)
(* and the calls to the storage controller.                                *)
(*                                                                         *)
(* One reconciler is analysed at a time (variable kind, chosen in Init);   *)
(* the resources of the other kinds, the referenced secrets, the storage   *)
(* controller, the clock and the other writers of the resource are its     *)
(* environment.  Every request to the resource store or to the storage     *)
(* controller is one step, so that other writers interleave with a pass.   *)
(***************************************************************************)
EXTENDS Naturals, Sequences, FiniteSets, TLC

VARIABLES
    kind,       \* the reconciler under analysis
    namespace,  \* namespace the resources of this deployment live in
    cr,         \* the store: custom resource of each kind
    child,      \* the store: child objects (secrets, workloads, services, ...)
    deps,       \* the store: objects the reconciler only reads
    now,        \* clock, in sub-second ticks
    env,        \* disturbances (failures, other writers) still to come; 0: stable
    queue,      \* the key is in the work queue (a pass is due)
    pc,         \* position of the running pass ("idle": no pass in flight;
                \* "return": Reconcile is returning ret to the work queue)
    site,       \* call site of the running SetPhases, "" when none
    step,       \* index of the child synchronization to run next
    mem,        \* the pass's in-memory copy of the resource
    cur,        \* `current`: the copy re-read by SetPhases / updateTenantID / updateTimelineID
    proj,       \* the Project read by a Branch pass
    ret,        \* what the last finished Reconcile returned
    sent,       \* identifiers sent to the storage controller for the stored resource
    log,        \* what the running (or last finished) pass did
    quiet,      \* the last pass returned an empty result and nothing has changed since
    subject,    \* a value the functions of package utils are applied to on their own
    call        \* the last function applied to subject, and its argument

vars == <<kind, namespace, cr, child, deps, now, env, queue, pc, site, step,
          mem, cur, proj, ret, sent, log, quiet, subject, call>>

-----------------------------------------------------------------------------
(* Bounds of the model *)

MaxTime == 2
TicksPerSecond == 2
MaxDisturbances == 2
\* condition types other than Ready, and the length of a condition list, in the
\* analysis of the status functions on their own
MaxOtherTypes == 1
MaxConditions == 3
\* key pairs at hand in the analysis of the JWT manager
MaxKeys == 2

-----------------------------------------------------------------------------
(* Kinds, phases, identifiers *)

Kinds == {"Cluster", "Project", "Branch", "Safekeeper", "Pageserver"}

\* utils.GenerateNeonID draws a random 32 character string; two draws may differ
GenerateNeonID == {"g1", "g2"}
\* identifiers a user may write into spec.tenantId / spec.timelineID
UserIDs == {"u1"}

\* the remaining spec fields (pgVersion, image, storage size), as one value
SpecValues == {"v1", "v2"}

-----------------------------------------------------------------------------
(* Phase constants (api/v1alpha1) *)

ClusterPhaseCreating == "Creating cluster"
ClusterPhaseCannotCreateClusterResources == "Unable to create all necessary cluster resources"
ClusterPhaseReady == "Ready"

SafekeeperPhaseCreating == "Creating safekeeper"
SafekeeperPhaseCannotCreateResources == "Unable to create all necessary safekeeper resources"

PageserverPhaseCreating == "Creating pageserver"
PageserverPhaseCannotCreateResources == "Unable to create all necessary pageserver resources"

ProjectPhasePending == "Pending"
ProjectPhaseCreating == "Creating"
ProjectPhaseReady == "Ready"
ProjectPhaseTenantCreationFailed == "TenantCreationFailed"
ProjectPhasePageserverConnectionError == "PageserverConnectionError"

BranchPhaseCreating == "Creating"
BranchPhaseReady == "Ready"
BranchPhaseCannotCreateResources == "CannotCreateResources"
BranchPhaseTimelineCreationFailed == "TimelineCreationFailed"

-----------------------------------------------------------------------------
(* Status: phase and conditions (utils/status.go) *)

EmptyStatus == [phase |-> "", conditions |-> <<>>]

Condition(type, status, reason, message, time) ==
    [type |-> type, status |-> status, reason |-> reason,
     message |-> message, lastTransitionTime |-> time]

NoCall == [fn |-> "", arg |-> Condition("", "", "", "", 0)]

\* an updateCondition that always appends
appendCondition(conditions, newCondition) == Append(conditions, newCondition)

\* updateCondition: replace in place the first condition of the same type, else append
updateCondition(conditions, newCondition) ==
    IF \E i \in 1..Len(conditions) : conditions[i].type = newCondition.type
    THEN LET first == CHOOSE i \in 1..Len(conditions) :
                          /\ conditions[i].type = newCondition.type
                          /\ \A j \in 1..(i - 1) : conditions[j].type # newCondition.type
         IN  [conditions EXCEPT ![first] = newCondition]
    ELSE Append(conditions, newCondition)

\* a SetPhase that reports the resource ready
SetPhaseTrue(status, phase, t) ==
    [phase |-> phase,
     conditions |-> updateCondition(status.conditions,
         Condition("Ready", "True", "ResourceIsNotReady", "Resource Is Not Ready", t))]

\* SetPhase: a phase with condition Ready=False and the generic reason
SetPhase(status, phase, t) ==
    [phase |-> phase,
     conditions |-> updateCondition(status.conditions,
         Condition("Ready", "False", "ResourceIsNotReady", "Resource Is Not Ready", t))]

\* SetError: an error phase with condition Ready=False, reason and message
SetError(status, phase, reason, message, t) ==
    [phase |-> phase,
     conditions |-> updateCondition(status.conditions,
         Condition("Ready", "False", reason, message, t))]

SetClusterCreatingStatus(status, t) == SetPhase(status, ClusterPhaseCreating, t)

SetClusterCannotCreateResourcesStatus(status, t) ==
    SetError(status, ClusterPhaseCannotCreateClusterResources,
             "ClusterIsNotReady", "Cluster Is Not Ready", t)

SetClusterReadyStatus(status, t) ==
    [phase |-> ClusterPhaseReady,
     conditions |-> updateCondition(status.conditions,
         Condition("Ready", "True", "ClusterIsReady", "Cluster is ready", t))]

SetSafekeeperCreatingStatus(status, t) == SetPhase(status, SafekeeperPhaseCreating, t)

SetSafekeeperCannotCreateResourcesStatus(status, t) ==
    SetError(status, SafekeeperPhaseCannotCreateResources,
             "SafekeeperIsNotReady", "Safekeeper Is Not Ready", t)

SetPageserverCreatingStatus(status, t) == SetPhase(status, PageserverPhaseCreating, t)

SetPageserverCannotCreateResourcesStatus(status, t) ==
    SetError(status, PageserverPhaseCannotCreateResources,
             "PageserverIsNotReady", "Pageserver Is Not Ready", t)

SetProjectPendingStatus(status, t) == SetPhase(status, ProjectPhasePending, t)

SetProjectCreatingStatus(status, t) == SetPhase(status, ProjectPhaseCreating, t)

SetProjectReadyStatus(status, t) ==
    [phase |-> ProjectPhaseReady,
     conditions |-> updateCondition(status.conditions,
         Condition("Ready", "True", "ProjectIsReady", "Project is ready", t))]

SetProjectTenantCreationFailedStatus(status, message, t) ==
    SetError(status, ProjectPhaseTenantCreationFailed, "TenantCreationFailed", message, t)

SetProjectPageserverConnectionErrorStatus(status, message, t) ==
    SetError(status, ProjectPhasePageserverConnectionError, "PageserverConnectionError", message, t)

SetBranchCreatingStatus(status, t) == SetPhase(status, BranchPhaseCreating, t)

SetBranchReadyStatus(status, t) ==
    [phase |-> BranchPhaseReady,
     conditions |-> updateCondition(status.conditions,
         Condition("Ready", "True", "BranchIsReady", "Branch is ready", t))]

SetBranchCannotCreateResourcesStatus(status, t) ==
    SetError(status, BranchPhaseCannotCreateResources, "BranchIsNotReady", "Branch Is Not Ready", t)

\* The status function each SetPhases call site of the controllers passes
StatusFn(k, s, status, t) ==
    CASE s = "Creating" /\ k = "Cluster"    -> SetClusterCreatingStatus(status, t)
      [] s = "Creating" /\ k = "Safekeeper" -> SetSafekeeperCreatingStatus(status, t)
      [] s = "Creating" /\ k = "Pageserver" -> SetPageserverCreatingStatus(status, t)
      [] s = "Creating" /\ k = "Branch"     -> SetBranchCreatingStatus(status, t)
      [] s = "Creating" /\ k = "Project"    -> SetProjectCreatingStatus(status, t)
      [] s = "Pending"                      -> SetProjectPendingStatus(status, t)
      [] s = "UpdateFailed" ->
             SetProjectTenantCreationFailedStatus(status, "Failed to update tenant ID", t)
      [] s = "ConnectionError" ->
             SetProjectPageserverConnectionErrorStatus(status, "Failed to connect to pageserver", t)
      [] s = "TenantFailed" ->
             SetProjectTenantCreationFailedStatus(status, "Pageserver returned status", t)
      [] s = "CannotCreate" /\ k = "Cluster"    -> SetClusterCannotCreateResourcesStatus(status, t)
      [] s = "CannotCreate" /\ k = "Safekeeper" -> SetSafekeeperCannotCreateResourcesStatus(status, t)
      [] s = "CannotCreate" /\ k = "Pageserver" -> SetPageserverCannotCreateResourcesStatus(status, t)
      [] s = "CannotCreate" /\ k = "Branch"     -> SetBranchCannotCreateResourcesStatus(status, t)
      [] s = "Ready" /\ k = "Cluster" -> SetClusterReadyStatus(status, t)
      [] s = "Ready" /\ k = "Project" -> SetProjectReadyStatus(status, t)
      [] s = "Ready" /\ k = "Branch"  -> SetBranchReadyStatus(status, t)

\* The store keeps times with a precision of one second (RFC 3339)
Truncate(t) == t - (t % TicksPerSecond)

Serialize(status) ==
    [phase |-> status.phase,
     conditions |-> [i \in 1..Len(status.conditions) |->
         [status.conditions[i] EXCEPT !.lastTransitionTime = Truncate(@)]]]

-----------------------------------------------------------------------------
(* The resource store *)

\* child objects of each kind, in the order the controller synchronizes them
Children(k) ==
    CASE k = "Cluster" ->
             <<"jwt-secret", "storage-controller-deployment", "storage-controller-service",
               "storage-broker-deployment", "storage-broker-service">>
      [] k = "Project" -> <<>>
      [] k = "Branch" ->
             <<"compute-spec-configmap", "compute-deployment", "admin-service",
               "postgres-service">>
      [] k = "Safekeeper" -> <<"pvc", "pod", "service">>
      [] k = "Pageserver" -> <<"configmap", "pvc", "pod", "service">>

ChildNames(k) == {Children(k)[i] : i \in 1..Len(Children(k))}

\* a synchronization that compares and patches the credential secret
CreateOnlyClaim(name) == name = "pvc"

\* a synchronization that compares and patches the persistent-volume claim
CreateOnlySecret(name) == name = "jwt-secret"

\* children that are created once and never compared or patched afterwards
CreateOnly(name) == name \in {"jwt-secret", "pvc"}

NoDoc == [labels |-> "", spec |-> "", id |-> "", tenant |-> "", defaults |-> ""]
\* owner: uid of the resource the controller owner reference points to, 0: none
NoChild == [exists |-> FALSE, owner |-> 0, doc |-> NoDoc]

NoObj == [uid |-> 0, id |-> "", spec |-> "", status |-> EmptyStatus]
NoCur == [rv |-> 0, id |-> "", spec |-> "", status |-> EmptyStatus]
NoProj == [tenant |-> ""]

\* the record of a pass: absent: the resource was not found; emptyId: it was
\* read with an empty identifier; calm: nothing has failed and nobody else has
\* acted since the pass began; steady: calm, and begun in quiet; wrote: a write
\* request was sent to the store; called: the storage controller was called;
\* synced: a child was synchronized; generated: an identifier was persisted;
\* noTenant: the Project looked up is missing or has an empty tenantId; conflict: a status patch
\* was refused because the revision read was stale; fresh: the resource was read
\* with an empty phase while none of its children existed; alone: nobody else
\* has acted since the pass began; lost: a SetPhases call of the pass returned
\* an error; answer: what the storage controller answered (when called);
\* syncFailed: the synchronization of a child returned an error; noParent: a
\* Safekeeper or Pageserver pass looked its parent Cluster up and did not find it
NewLog == [absent |-> FALSE, emptyId |-> FALSE, calm |-> TRUE, steady |-> FALSE,
           wrote |-> FALSE, called |-> FALSE, synced |-> FALSE, generated |-> FALSE,
           noTenant |-> FALSE, conflict |-> FALSE, fresh |-> FALSE, alone |-> TRUE,
           lost |-> FALSE, answer |-> 0, syncFailed |-> FALSE, noParent |-> FALSE]

\* which objects a reconciler of kind k reads besides its own resource
UsesProject(k) == k = "Branch"
UsesCluster(k) == k \in {"Branch", "Safekeeper", "Pageserver"}
UsesSecret(k)  == k \in {"Cluster", "Pageserver"}

\* the states of the objects the reconciler of kind k only reads, in a
\* deployment living in namespace ns:
\* project/tenant: the Project named by spec.projectID and its spec.tenantId;
\* cluster: the parent Cluster (for a Branch: together with its JWT secret);
\* secret: the referenced secret (database credentials for a Cluster, bucket
\* credentials for a Pageserver);
\* ready: the Cluster referred to has status.phase Ready (no reconciler reads it).
\* A Branch looks its Cluster up in namespace "neon" whatever ns is; outside
\* "neon" only the case that the Cluster exists is told apart
DepStates(k, ns) ==
    { d \in [project : BOOLEAN, tenant : {"", "t1"}, cluster : BOOLEAN, secret : BOOLEAN,
              ready : BOOLEAN] :
        /\ (k = "Cluster" => d.ready)
        /\ (~d.cluster => ~d.ready)
        /\ (~UsesProject(k) => d.project /\ d.tenant = "t1")
        /\ (~d.project => d.tenant = "")
        /\ (~UsesCluster(k) \/ (k = "Branch" /\ ns # "neon") => d.cluster)
        /\ (~UsesSecret(k) => d.secret) }

HasIdentifier(k) == k \in {"Project", "Branch"}

Init ==
    /\ kind \in Kinds
    /\ namespace \in (IF kind = "Branch" THEN {"neon", "default"} ELSE {"default"})
    /\ cr = [exists |-> FALSE, uid |-> 0, rv |-> 0, id |-> "", spec |-> "", status |-> EmptyStatus]
    /\ child = [n \in ChildNames(kind) |-> NoChild]
    /\ deps \in DepStates(kind, namespace)
    /\ now = 0
    /\ env = MaxDisturbances
    /\ queue = FALSE
    /\ pc = "idle"
    /\ site = ""
    /\ step = 0
    /\ mem = NoObj
    /\ cur = NoCur
    /\ proj = NoProj
    /\ ret = "none"
    /\ sent = {}
    /\ log = NewLog
    /\ quiet = FALSE
    /\ subject = EmptyStatus
    /\ call = NoCall

\* a request to the store may fail for reasons of its own
Failures == IF env > 0 THEN {FALSE, TRUE} ELSE {FALSE}

\* what the storage controller may answer: 0 stands for a transport failure
Answers == IF env > 0 THEN {0, 200, 201, 409, 500} ELSE {200, 201}

-----------------------------------------------------------------------------
(* Control flow of the reconcile functions *)

\* a pass ends: Reconcile returns r
Return(r) == [pc |-> "return", site |-> "", step |-> 0, ret |-> r]
\* the pass goes on
Goto(p, s, n) == [pc |-> p, site |-> s, step |-> n, ret |-> "running"]

\* a Project reconciler that calls the storage controller before it has an identifier
BodyEnsureFirst(k, m) ==
    CASE k = "Project" -> Goto("ensure", "", 0)
      [] k = "Branch"  -> IF m.id = "" THEN Goto("update", "", 0)
                                       ELSE Goto("getProject", "", 0)
      [] OTHER         -> Goto("sync", "", 1)

\* the part of reconcile after the initial phase has been set
Body(k, m) ==
    CASE k = "Project" -> IF m.id = "" THEN Goto("SetPhases", "Creating", 0)
                                       ELSE Goto("ensure", "", 0)
      [] k = "Branch"  -> IF m.id = "" THEN Goto("update", "", 0)
                                       ELSE Goto("getProject", "", 0)
      [] OTHER         -> Goto("sync", "", 1)

\* reconcile, from its first line: the initial phase is set when the phase is empty
Begin(k, m) ==
    IF m.status.phase = ""
    THEN Goto("SetPhases", IF k = "Project" THEN "Pending" ELSE "Creating", 0)
    ELSE Body(k, m)

\* what reconcile does when SetPhases, called at site s, has returned (failed or not)
AfterSetPhases(k, s, failed, m) ==
    CASE s = "Pending"  -> IF failed THEN Return("error") ELSE Body(k, m)
      [] s = "Creating" /\ k = "Project" ->
             IF failed THEN Return("error") ELSE Goto("update", "", 0)
      [] s = "Creating" /\ k # "Project" -> IF failed THEN Return("error") ELSE Body(k, m)
      [] s = "UpdateFailed"    -> Return("error")
      [] s = "ConnectionError" -> Return("requeue10s")
      [] s = "TenantFailed"    -> Return("requeue10s")
      [] s = "CannotCreate"    -> Return("error")
      [] s = "Ready"           -> IF failed THEN Return("error") ELSE Return("empty")

\* a reconciler that goes on with the pass after it has persisted an identifier
AfterUpdateContinue(k, failed) ==
    IF k = "Project"
    THEN IF failed THEN Goto("SetPhases", "UpdateFailed", 0) ELSE Goto("ensure", "", 0)
    ELSE IF failed THEN Return("error") ELSE Goto("getProject", "", 0)

\* what reconcile does when the identifier self-patch has returned
AfterUpdate(k, failed) ==
    IF k = "Project"
    THEN IF failed THEN Goto("SetPhases", "UpdateFailed", 0) ELSE Return("requeue1s")
    ELSE IF failed THEN Return("error") ELSE Return("requeue1s")

\* a Project reconciler that does not report Ready after a successful call
AfterEnsureNoReady(k, a) ==
    IF k = "Project"
    THEN IF a = 0 THEN Goto("SetPhases", "ConnectionError", 0)
         ELSE IF a < 200 \/ a >= 300 THEN Goto("SetPhases", "TenantFailed", 0)
         ELSE Return("empty")
    ELSE IF a = 0 \/ a \notin {200, 201, 409} THEN Return("requeue10s")
         ELSE Goto("sync", "", 1)

\* a Branch reconciler that goes on to the compute resources whatever the answer
AfterEnsureIgnoreFailure(k, a) ==
    IF k = "Project"
    THEN IF a = 0 THEN Goto("SetPhases", "ConnectionError", 0)
         ELSE IF a < 200 \/ a >= 300 THEN Goto("SetPhases", "TenantFailed", 0)
         ELSE Goto("SetPhases", "Ready", 0)
    ELSE Goto("sync", "", 1)

\* a Branch reconciler that takes the answer 409 for a failure
AfterEnsureConflictFails(k, a) ==
    IF k = "Project"
    THEN IF a = 0 THEN Goto("SetPhases", "ConnectionError", 0)
         ELSE IF a < 200 \/ a >= 300 THEN Goto("SetPhases", "TenantFailed", 0)
         ELSE Goto("SetPhases", "Ready", 0)
    ELSE IF a = 0 \/ a \notin {200, 201} THEN Return("requeue10s")
         ELSE Goto("sync", "", 1)

\* a Project reconciler that reports nothing in the status when the call has failed
AfterEnsureNoStatus(k, a) ==
    IF k = "Project"
    THEN IF a = 0 \/ a < 200 \/ a >= 300 THEN Return("requeue10s")
         ELSE Goto("SetPhases", "Ready", 0)
    ELSE IF a = 0 \/ a \notin {200, 201, 409} THEN Return("requeue10s")
         ELSE Goto("sync", "", 1)

\* what reconcile does when the call to the storage controller has returned answer a
AfterEnsure(k, a) ==
    IF k = "Project"
    THEN IF a = 0 THEN Goto("SetPhases", "ConnectionError", 0)
         ELSE IF a < 200 \/ a >= 300 THEN Goto("SetPhases", "TenantFailed", 0)
         ELSE Goto("SetPhases", "Ready", 0)
    ELSE IF a = 0 \/ a \notin {200, 201, 409} THEN Return("requeue10s")
         ELSE Goto("sync", "", 1)

\* a reconciler that goes on to the next child when a synchronization has failed
AfterSyncIgnoreFailure(k, n, failed) ==
    IF n < Len(Children(k)) THEN Goto("sync", "", n + 1)
    ELSE IF k \in {"Cluster", "Branch"} THEN Goto("SetPhases", "Ready", 0)
    ELSE Return("empty")

\* a reconcile that returns the error of a synchronization without reporting it
\* in the status
AfterSyncNoStatus(k, n, failed) ==
    IF failed THEN Return("error")
    ELSE IF n < Len(Children(k)) THEN Goto("sync", "", n + 1)
    ELSE IF k \in {"Cluster", "Branch"} THEN Goto("SetPhases", "Ready", 0)
    ELSE Return("empty")

\* what reconcile does when the synchronization of child n has returned
AfterSync(k, n, failed) ==
    IF failed THEN Goto("SetPhases", "CannotCreate", 0)
    ELSE IF n < Len(Children(k)) THEN Goto("sync", "", n + 1)
    ELSE IF k \in {"Cluster", "Branch"} THEN Goto("SetPhases", "Ready", 0)
    ELSE Return("empty")

\* a work queue that drops the key when Reconcile asks for a delayed requeue
RequeuedOnErrorOnly(r) == r \in {"error", "panic"}

\* the work queue: a pass is due after an error (backoff), a requeue request,
\* or a watch event on the resource or a child it owns
Requeued(r) == r \in {"error", "requeue1s", "requeue10s", "panic"}

\* apply a control-flow decision c; event: the step changed a watched object;
\* m, cu, p: the in-memory copies the pass goes on with
Continue(c, event, m, cu, p) ==
    /\ pc' = c.pc
    /\ site' = c.site
    /\ step' = c.step
    /\ ret' = c.ret
    /\ queue' = (queue \/ event)
    /\ mem' = m
    /\ cur' = cu
    /\ proj' = p

\* bookkeeping of a controller step: l is the pass record after the step,
\* failed whether the environment made the step fail
Record(l, failed) ==
    /\ log' = [l EXCEPT !.calm = @ /\ ~failed, !.steady = @ /\ ~failed]
    /\ env' = IF failed THEN env - 1 ELSE env
    /\ UNCHANGED quiet

-----
(* The reconcilers *)

\* Reconcile: a pass starts by reading the resource named by the request
Reconcile ==
    /\ pc = "idle"
    /\ queue
    /\ \E fail \in Failures :
         LET m == [uid |-> cr.uid, id |-> cr.id, spec |-> cr.spec, status |-> cr.status]
             found == ~fail /\ cr.exists
             c == IF fail THEN Return("error")
                  ELSE IF ~cr.exists
                       THEN IF kind = "Cluster" THEN Return("panic") ELSE Return("empty")
                       ELSE Begin(kind, m)
             l == [NewLog EXCEPT !.absent = ~fail /\ ~cr.exists,
                                 !.emptyId = found /\ cr.id = "",
                                 !.fresh = /\ found
                                           /\ cr.status.phase = ""
                                           /\ \A n \in ChildNames(kind) : ~child[n].exists,
                                 !.steady = quiet]
         IN /\ pc' = c.pc
            /\ site' = c.site
            /\ step' = c.step
            /\ ret' = c.ret
            /\ queue' = FALSE
            /\ mem' = IF found THEN m ELSE NoObj
            /\ Record(l, fail)
    /\ UNCHANGED <<subject, call, kind, namespace, cr, child, deps, now, cur, proj, sent>>

\* Reconcile has returned: the work queue retries after an error (or a panic),
\* re-adds the key when a requeue was requested, and forgets it otherwise
Requeue ==
    /\ pc = "return"
    /\ pc' = "idle"
    /\ queue' = (queue \/ Requeued(ret))
    /\ mem' = NoObj
    /\ cur' = NoCur
    /\ proj' = NoProj
    /\ quiet' = (ret = "empty" /\ log.calm)
    /\ UNCHANGED <<subject, call, kind, namespace, cr, child, deps, now, env, site, step, ret, sent, log>>

\* SetPhases, first half: re-read the resource from the store
SetPhasesGet ==
    /\ pc = "SetPhases"
    /\ \E fail \in Failures :
         LET failed == fail \/ ~cr.exists
             cu == [rv |-> cr.rv, id |-> cr.id, spec |-> cr.spec, status |-> cr.status]
             c == IF failed THEN AfterSetPhases(kind, site, TRUE, mem)
                  ELSE Goto("SetPhasesPatch", site, step)
         IN /\ Continue(c, FALSE, mem, IF failed THEN NoCur ELSE cu, proj)
            /\ Record([log EXCEPT !.lost = @ \/ failed], fail)
    /\ UNCHANGED <<subject, call, kind, namespace, cr, child, deps, now, sent>>

\* a store that takes a status patch whatever revision it carries
ConflictIgnored(stored, read) == FALSE

\* the store refuses a patch that carries a revision other than the stored one
\* (client.MergeFromWithOptimisticLock)
Conflict(stored, read) == stored.rv # read.rv

\* SetPhases, second half: apply the setter to the copy read from the store,
\* compare with the caller's status, and patch the status with the revision
\* read as precondition
SetPhasesPatch ==
    /\ pc = "SetPhasesPatch"
    /\ \E fail \in Failures :
         LET updated == StatusFn(kind, site, cur.status, now)
             unchanged == mem.status = updated
             failed == ~unchanged /\ (fail \/ ~cr.exists \/ Conflict(cr, cur))
             written == ~unchanged /\ ~failed
             stored == Serialize(updated)
             c == AfterSetPhases(kind, site, failed, mem)
             m == IF written THEN [mem EXCEPT !.status = stored] ELSE mem
         IN /\ (unchanged => ~fail)
            /\ cr' = IF written /\ stored # cr.status
                     THEN [cr EXCEPT !.status = stored, !.rv = @ + 1]
                     ELSE cr
            /\ Continue(c, cr' # cr, m, NoCur, proj)
            /\ Record([log EXCEPT !.wrote = @ \/ ~unchanged,
                                  !.conflict = @ \/ (failed /\ ~fail /\ cr.exists),
                                  !.lost = @ \/ failed], fail)
    /\ UNCHANGED <<subject, call, kind, namespace, child, deps, now, sent>>

\* updateTenantID / updateTimelineID, first half: re-read the resource
UpdateGet ==
    /\ pc = "update"
    /\ \E fail \in Failures :
         LET failed == fail \/ ~cr.exists
             cu == [rv |-> cr.rv, id |-> cr.id, spec |-> cr.spec, status |-> cr.status]
             c == IF failed THEN AfterUpdate(kind, TRUE) ELSE Goto("UpdatePatch", "", 0)
         IN /\ Continue(c, FALSE, mem, IF failed THEN NoCur ELSE cu, proj)
            /\ Record(log, fail)
    /\ UNCHANGED <<subject, call, kind, namespace, cr, child, deps, now, sent>>

\* a self-patch that sends the whole copy read, spec and status included
SelfPatchWholeCopy(stored, read, g) ==
    [stored EXCEPT !.id = g, !.spec = read.spec, !.status = read.status, !.rv = @ + 1]

\* what the self-patch does to the stored resource: spec.tenantID /
\* spec.timelineID is the only field that differs from the copy read, and the
\* status is not written through the main resource
SelfPatch(stored, read, g) == [stored EXCEPT !.id = g, !.rv = @ + 1]

\* updateTenantID / updateTimelineID, second half: a generated identifier is
\* written into the spec. The Project is sent as a server-side apply of the
\* copy read (its revision included, conflicts not forced); the Branch as a
\* merge patch against the copy read, without a revision precondition
UpdatePatch ==
    /\ pc = "UpdatePatch"
    /\ \E fail \in Failures, g \in GenerateNeonID :
         LET conflict == kind = "Project" /\ (cr.rv # cur.rv \/ cr.id \notin {"", g})
             failed == fail \/ ~cr.exists \/ conflict
             c == AfterUpdate(kind, failed)
         IN /\ cr' = IF failed \/ cr.id = g THEN cr ELSE SelfPatch(cr, cur, g)
            /\ Continue(c, cr' # cr, IF failed THEN mem ELSE [mem EXCEPT !.id = g], NoCur, proj)
            /\ Record([log EXCEPT !.wrote = TRUE, !.generated = ~failed], fail)
    /\ UNCHANGED <<subject, call, kind, namespace, child, deps, now, sent>>

\* getProject: the Branch reconciler reads the Project named by spec.projectID
getProject ==
    /\ pc = "getProject"
    /\ \E fail \in Failures :
         LET failed == fail \/ ~deps.project
             c == IF failed THEN Return("error") ELSE Goto("ensure", "", 0)
         IN /\ Continue(c, FALSE, mem, cur, [tenant |-> deps.tenant])
            /\ Record([log EXCEPT !.noTenant = ~fail /\ (~deps.project \/ deps.tenant = "")],
                      fail)
    /\ UNCHANGED <<subject, call, kind, namespace, cr, child, deps, now, sent>>

\* ensureTenantOnPageserver / ensureTimeline: one HTTP call to the storage
\* controller carrying the identifier held in memory. An answer other than
\* success counts as a disturbance, save for the first pass of a new resource
\* while the Cluster is not Ready: its storage controller refuses then anyway
Ensure ==
    /\ pc = "ensure"
    /\ \E a \in Answers :
         LET c == AfterEnsure(kind, a)
             refused == a \notin {200, 201}
         IN /\ Continue(c, FALSE, mem, cur, proj)
            /\ Record([log EXCEPT !.called = TRUE, !.answer = a,
                                  !.calm = @ /\ ~refused, !.steady = @ /\ ~refused],
                      refused /\ (deps.ready \/ ~log.fresh))
    /\ sent' = IF cr.exists /\ cr.uid = mem.uid THEN sent \cup {mem.id} ELSE sent
    /\ UNCHANGED <<subject, call, kind, namespace, cr, child, deps, now>>

\* a Branch reconciler that looks the Cluster up in the namespace it lives in
DepOKOwnNamespace(k, name) ==
    CASE k = "Cluster" /\ name = "storage-controller-deployment" -> deps.secret
      [] k = "Branch" /\ name = "compute-spec-configmap" -> deps.cluster
      [] k = "Safekeeper" /\ name = "pod" -> deps.cluster
      [] k = "Pageserver" /\ name = "configmap" -> deps.secret
      [] k = "Pageserver" /\ name = "pod" -> deps.cluster
      [] OTHER -> TRUE

\* what the synchronization of a child reads besides the child itself
DepOK(k, name) ==
    CASE k = "Cluster" /\ name = "storage-controller-deployment" -> deps.secret
      [] k = "Branch" /\ name = "compute-spec-configmap" ->
             deps.cluster /\ namespace = "neon"
      [] k = "Safekeeper" /\ name = "pod" -> deps.cluster
      [] k = "Pageserver" /\ name = "configmap" -> deps.secret
      [] k = "Pageserver" /\ name = "pod" -> deps.cluster
      [] OTHER -> TRUE

\* the fields of a document: labels stands for its metadata, the others for
\* its spec (its data, for a config map)
DocFields == {"labels", "spec", "id", "tenant", "defaults"}

\* the part of the documents the synchronization compares: .Spec (.Data)
ComparedFields == {"spec", "id", "tenant", "defaults"}

\* equality.Semantic.DeepDerivative: fields the intended document leaves unset
\* are ignored, the others must be equal
DeepDerivative(intended, current) ==
    \A f \in ComparedFields : intended[f] = "" \/ intended[f] = current[f]

\* the stored document after the intended one has been applied to it
Applied(intended, current) ==
    [f \in DocFields |-> IF intended[f] = "" THEN current[f] ELSE intended[f]]

\* the intended document of a child, computed from the copies held in memory
IntendedDoc ==
    [labels |-> "app", spec |-> mem.spec, id |-> mem.id, tenant |-> proj.tenant,
     defaults |-> ""]

\* ed25519.GenerateKey draws a fresh key pair; two draws differ
GenerateKey == {"k1", "k2"}

\* the secret cluster-<name>-jwt: no labels, the key pair as data
JWTSecret(key) == [NoDoc EXCEPT !.spec = key]

\* a synchronization that creates its child without an owner reference
NoControllerReference(owner, name) == 0

\* ctrl.SetControllerReference(owner, object): every synchronization calls it
\* on the intended document before it creates the child
SetControllerReference(owner, name) == owner.uid

\* the synchronization of child name looks the parent Cluster up
ReadsParent(k, name) == k \in {"Safekeeper", "Pageserver"} /\ name = "pod"

\* one child of the resource is synchronized: looked up, created when absent,
\* patched when the intended document is not a derivative of the stored one
\* a write that also removes every other child
WriteChildAndPrune(children, name, obj) ==
    [n \in DOMAIN children |-> IF n = name THEN obj ELSE NoChild]

\* r.Create / r.Patch of one object: the child named is written, no other
WriteChild(children, name, obj) == [children EXCEPT ![name] = obj]

SyncChild ==
    /\ pc = "sync"
    /\ \E fail \in Failures, key \in GenerateKey :
         LET name == Children(kind)[step]
             ch == child[name]
             intended == IF name = "jwt-secret" THEN JWTSecret(key) ELSE IntendedDoc
             failed == fail \/ ~DepOK(kind, name)
             create == ~failed /\ ~ch.exists
             patch == ~failed /\ ch.exists /\ ~CreateOnly(name)
                        /\ ~DeepDerivative(intended, ch.doc)
             c == AfterSync(kind, step, failed)
         IN /\ child' = IF create
                        THEN WriteChild(child, name,
                                [exists |-> TRUE,
                                 owner |-> SetControllerReference(mem, name),
                                 doc |-> Applied(intended, [NoDoc EXCEPT !.defaults = "set"])])
                        ELSE IF patch
                        THEN WriteChild(child, name,
                                [ch EXCEPT !.doc = Applied(intended, ch.doc)])
                        ELSE child
            /\ Continue(c, child' # child, mem, cur, proj)
            /\ Record([log EXCEPT !.synced = TRUE, !.wrote = @ \/ create \/ patch,
                                  !.syncFailed = failed,
                                  !.noParent = @ \/ (/\ ~fail
                                                     /\ ReadsParent(kind, name)
                                                     /\ ~deps.cluster)], fail)
    /\ UNCHANGED <<subject, call, kind, namespace, cr, deps, now, sent>>

-----------------------------------------------------------------------------
(* The environment: users, other controllers, the garbage collector, the clock *)

\* an outside change: it uses up one disturbance and ends the calm the pass
\* records speak about
Disturbed ==
    /\ env > 0
    /\ env' = env - 1
    /\ log' = [log EXCEPT !.calm = FALSE, !.steady = FALSE, !.alone = FALSE]
    /\ quiet' = FALSE

\* the clock advances
Tick ==
    /\ now < MaxTime
    /\ now' = now + 1
    /\ UNCHANGED <<subject, call, kind, namespace, cr, child, deps, env, queue, pc, site, step, mem, cur,
                   proj, ret, sent, log, quiet>>

\* a user creates the resource, with or without an identifier of their own
CreateResource ==
    /\ ~cr.exists
    /\ \E id \in (IF HasIdentifier(kind) THEN {""} \cup UserIDs ELSE {""}), v \in SpecValues :
         cr' = [exists |-> TRUE, uid |-> cr.rv + 1, rv |-> cr.rv + 1, id |-> id,
                spec |-> v, status |-> EmptyStatus]
    /\ sent' = {}
    /\ queue' = TRUE
    /\ Disturbed
    /\ UNCHANGED <<subject, call, kind, namespace, child, deps, now, pc, site, step, mem, cur, proj, ret>>

\* a user deletes the resource; the garbage collector removes the children it owns
DeleteResource ==
    /\ cr.exists
    /\ cr' = [cr EXCEPT !.exists = FALSE, !.rv = @ + 1]
    /\ child' = [n \in ChildNames(kind) |-> NoChild]
    /\ queue' = TRUE
    /\ Disturbed
    /\ UNCHANGED <<subject, call, kind, namespace, deps, now, pc, site, step, mem, cur, proj, ret, sent>>

\* a user edits the spec (the identifier aside)
EditSpec ==
    /\ cr.exists
    /\ \E v \in SpecValues \ {cr.spec} : cr' = [cr EXCEPT !.spec = v, !.rv = @ + 1]
    /\ queue' = TRUE
    /\ Disturbed
    /\ UNCHANGED <<subject, call, kind, namespace, child, deps, now, pc, site, step, mem, cur, proj, ret, sent>>

\* a user fills in the identifier that was left empty
SetIdentifier ==
    /\ cr.exists
    /\ HasIdentifier(kind)
    /\ cr.id = ""
    /\ \E id \in UserIDs : cr' = [cr EXCEPT !.id = id, !.rv = @ + 1]
    /\ queue' = TRUE
    /\ Disturbed
    /\ UNCHANGED <<subject, call, kind, namespace, child, deps, now, pc, site, step, mem, cur, proj, ret, sent>>

Sites(k) ==
    CASE k = "Project" -> {"Pending", "Creating", "UpdateFailed", "ConnectionError",
                           "TenantFailed", "Ready"}
      [] k \in {"Cluster", "Branch"} -> {"Creating", "CannotCreate", "Ready"}
      [] OTHER -> {"Creating", "CannotCreate"}

\* another writer (a second instance of the operator) patches the status
EditStatus ==
    /\ cr.exists
    /\ \E s \in Sites(kind) :
         LET st == Serialize(StatusFn(kind, s, cr.status, now))
         IN /\ st # cr.status
            /\ cr' = [cr EXCEPT !.status = st, !.rv = @ + 1]
    /\ queue' = TRUE
    /\ Disturbed
    /\ UNCHANGED <<subject, call, kind, namespace, child, deps, now, pc, site, step, mem, cur, proj, ret, sent>>

\* a child is deleted, or the spec of its stored document is changed, or its
\* labels are removed, from outside
ChangeChild ==
    /\ \E n \in ChildNames(kind) :
         /\ child[n].exists
         /\ \/ child' = [child EXCEPT ![n] = NoChild]
            \/ \E v \in SpecValues \ {child[n].doc.spec} :
                 child' = [child EXCEPT ![n].doc.spec = v]
            \/ /\ child[n].doc.labels # ""
               /\ child' = [child EXCEPT ![n].doc.labels = ""]
    /\ queue' = TRUE
    /\ Disturbed
    /\ UNCHANGED <<subject, call, kind, namespace, cr, deps, now, pc, site, step, mem, cur, proj, ret, sent>>

\* the objects the reconciler only reads come and go
ChangeDependency ==
    /\ \E d \in DepStates(kind, namespace) \ {deps} : deps' = d
    /\ Disturbed
    /\ UNCHANGED <<subject, call, kind, namespace, cr, child, now, queue, pc, site, step, mem, cur,
                   proj, ret, sent>>

\* from here on nothing fails, nobody else writes, and the storage controller
\* answers with success
Stabilize ==
    /\ env > 0
    /\ env' = 0
    /\ UNCHANGED <<subject, call, kind, namespace, cr, child, deps, now, queue, pc, site, step, mem, cur,
                   proj, ret, sent, log, quiet>>

Controller ==
    \/ Reconcile
    \/ Requeue
    \/ SetPhasesGet
    \/ SetPhasesPatch
    \/ UpdateGet
    \/ UpdatePatch
    \/ getProject
    \/ Ensure
    \/ SyncChild

Environment ==
    \/ Tick
    \/ CreateResource
    \/ DeleteResource
    \/ EditSpec
    \/ SetIdentifier
    \/ EditStatus
    \/ ChangeChild
    \/ ChangeDependency
    \/ Stabilize

Next == Controller \/ Environment

Spec == Init /\ [][Next]_vars

\* the controller runs whenever it can: a queued key is eventually picked up
\* and a running pass eventually takes its next step
FairSpec == Spec /\ WF_vars(Controller)

-----------------------------------------------------------------------------
(* Properties *)

IsReady(status) ==
    /\ status.phase = (CASE kind = "Cluster" -> ClusterPhaseReady
                         [] kind = "Project" -> ProjectPhaseReady
                         [] OTHER -> BranchPhaseReady)
    /\ \E i \in 1..Len(status.conditions) :
         status.conditions[i].type = "Ready" /\ status.conditions[i].status = "True"

\* a step of SetPhases that ends the call (patch sent or suppressed)
SetPhasesEnds == pc = "SetPhasesPatch" /\ pc' # "SetPhasesPatch"

\* C1 (status write suppression): when SetPhases is called and the setter,
\* applied to the status just read from the store, yields that very status,
\* no patch is sent (the pass has written nothing more than before), the
\* store is unchanged and SetPhases returns nil.
C1_StatusWriteSuppression ==
    [][(/\ SetPhasesEnds
        /\ cr.exists
        /\ cr.status = cur.status
        /\ StatusFn(kind, site, cur.status, now) = cur.status)
       => (/\ log'.wrote = log.wrote
           /\ cr' = cr
           /\ pc' = AfterSetPhases(kind, site, FALSE, mem).pc
           /\ ret' = AfterSetPhases(kind, site, FALSE, mem).ret)]_vars

\* C2 (idempotent convergence): a pass that begins right after a pass that
\* returned an empty result without error, with nothing outside the controller
\* having changed or failed since, sends no write to the store.
C2_IdempotentConvergence == log.steady => ~log.wrote

\* C3 (identifier immutability): once the stored identifier of a resource is
\* non-empty no step changes it, as long as the resource is the same one.
C3_IdentifierImmutability ==
    [][(cr.exists /\ cr.id # "" /\ cr'.exists /\ cr'.uid = cr.uid) => cr'.id = cr.id]_vars

\* C4 (at-most-once external provisioning): all the calls made for the stored
\* resource carry one identifier, which is non-empty and is the one stored in
\* its spec.
C4_AtMostOnceProvisioning == cr.exists => (sent \subseteq {cr.id} /\ "" \notin sent)

\* a later pass has called the storage controller with the generated, stored identifier
C4_Witness ==
    /\ cr.exists
    /\ cr.id \in GenerateNeonID
    /\ sent = {cr.id}
    /\ pc = "return"
    /\ log.called

\* C5 (optimistic concurrency of status writes): when another writer has
\* changed the resource between the read and the patch of SetPhases, the patch
\* changes nothing in the store, SetPhases returns the error, and the caller's
\* in-memory copy is as it was.
C5_OptimisticConcurrency ==
    [][(/\ SetPhasesEnds
        /\ cr.exists
        /\ cr.rv # cur.rv
        /\ mem.status # StatusFn(kind, site, cur.status, now))
       => (/\ cr' = cr
           /\ mem' = mem
           /\ pc' = AfterSetPhases(kind, site, TRUE, mem).pc
           /\ ret' = AfterSetPhases(kind, site, TRUE, mem).ret)]_vars

\* a status patch was refused for a stale revision and the other writer's status is stored
C5_Witness ==
    /\ log.conflict
    /\ pc = "return"
    /\ ret = "error"
    /\ cr.exists
    /\ cr.status # EmptyStatus

\* C6 (dependency gating): a Branch pass that finds its Project missing or
\* without tenant identifier synchronizes no child and returns an error.
C6_DependencyGating ==
    (kind = "Branch" /\ log.noTenant) => (~log.synced /\ (pc = "return" => ret = "error"))

\* a Branch whose Project has no tenantId has got all its compute resources and is Ready
C6_Witness ==
    /\ kind = "Branch"
    /\ log.noTenant
    /\ deps.project
    /\ pc = "return"
    /\ ret = "empty"
    /\ \A n \in ChildNames("Branch") : child[n].exists
    /\ IsReady(cr.status)

DepsAvailable ==
    /\ deps.project
    /\ deps.cluster
    /\ deps.secret
    /\ (kind = "Branch" => namespace = "neon")

C8_DeletionHandling ==
    (log.absent /\ pc = "return") => (ret = "empty" /\ ~log.wrote /\ ~log.called)

\* C9 (Project scenario): an undisturbed pass of a Project read with an empty
\* tenantId ends with stored phase Creating and a non-empty stored tenantId;
\* an undisturbed pass of a Project read with a tenantId calls the storage
\* controller with that identifier and ends with stored phase Ready and
\* condition Ready=True.
C9_ProjectScenario ==
    (kind = "Project" /\ pc = "return" /\ log.calm /\ ~log.absent) =>
        IF log.emptyId
        THEN cr.status.phase = ProjectPhaseCreating /\ cr.id # "" /\ ~log.called
        ELSE log.called /\ sent = {cr.id} /\ IsReady(cr.status)

\* the second pass of a Project has ended: its generated identifier was sent, it is Ready
C9_Witness ==
    /\ kind = "Project"
    /\ pc = "return"
    /\ log.calm
    /\ ~log.emptyId
    /\ cr.id \in GenerateNeonID
    /\ sent = {cr.id}
    /\ IsReady(cr.status)

\* C10 (soft-continue): the pass that persists a generated identifier ends
\* there: no call to the storage controller, no child synchronized, and
\* Reconcile returns a requeue request without error.
C10_SoftContinue ==
    log.generated =>
        /\ ~log.called
        /\ ~log.synced
        /\ pc \in {"return", "idle"}
        /\ ret = "requeue1s"

\* a Branch pass has persisted a generated timelineID and is returning
C10_Witness ==
    /\ log.generated
    /\ kind = "Branch"
    /\ pc = "return"
    /\ cr.id \in GenerateNeonID

-----------------------------------------------------------------------------
(* Outcome of a pass *)

ReadyFalse(status) ==
    \E i \in 1..Len(status.conditions) :
        status.conditions[i].type = "Ready" /\ status.conditions[i].status = "False"

\* the phases that report a failure
FailurePhases(k) ==
    CASE k = "Cluster"    -> {ClusterPhaseCannotCreateClusterResources}
      [] k = "Project"    -> {ProjectPhaseTenantCreationFailed,
                              ProjectPhasePageserverConnectionError}
      [] k = "Branch"     -> {BranchPhaseCannotCreateResources,
                              BranchPhaseTimelineCreationFailed}
      [] k = "Safekeeper" -> {SafekeeperPhaseCannotCreateResources}
      [] k = "Pageserver" -> {PageserverPhaseCannotCreateResources}

\* Reconcile is returning, the resource is stored, nobody else has acted since
\* the pass began and none of its status writes was refused: the stored status
\* is the one this pass has left
Settled == pc = "return" /\ cr.exists /\ log.alone /\ ~log.lost

\* every child was synchronized without error in this pass
AllSynced == log.synced /\ ~log.syncFailed

\* C11 (Cluster pass outcome): a Cluster pass ends with phase Ready and no
\* error exactly when every synchronization step of the pass succeeded; when a
\* step fails, the pass stores the phase CannotCreateClusterResources with
\* Ready=False and returns an error.
C11_ClusterPassOutcome ==
    (kind = "Cluster" /\ Settled) =>
        /\ (ret = "empty" /\ IsReady(cr.status)) <=> AllSynced
        /\ log.syncFailed =>
              /\ ret = "error"
              /\ cr.status.phase = ClusterPhaseCannotCreateClusterResources
              /\ ReadyFalse(cr.status)

\* a Cluster pass has failed on the missing database secret and reported it
C11_Witness ==
    /\ kind = "Cluster"
    /\ Settled
    /\ log.syncFailed
    /\ ~deps.secret
    /\ child["jwt-secret"].exists
    /\ ~child["storage-controller-deployment"].exists
    /\ cr.status.phase = ClusterPhaseCannotCreateClusterResources

\* C12 (Cluster scenario): after the first pass of a newly created Cluster
\* all its children exist and its phase is Creating; Ready comes in a later pass.
C12_ClusterScenario ==
    (kind = "Cluster" /\ Settled /\ log.fresh /\ AllSynced) =>
        /\ \A n \in ChildNames("Cluster") : child[n].exists
        /\ cr.status.phase = ClusterPhaseCreating

\* the first pass of a newly created Cluster has made it Ready
C12_Witness ==
    /\ kind = "Cluster"
    /\ Settled
    /\ log.fresh
    /\ \A n \in ChildNames("Cluster") : child[n].exists
    /\ IsReady(cr.status)

\* the answers the specification counts as success of a call to the storage controller
Accepted == {200, 201, 409}

\* C13 (attach-tenant classification): the Project pass takes a success code
\* and the answer 409 for success and becomes Ready; every other answer and a
\* transport failure are failures.
C13_AttachTenantClassification ==
    (kind = "Project" /\ Settled /\ log.called) =>
        IF log.answer \in Accepted
        THEN ret = "empty" /\ IsReady(cr.status)
        ELSE ret = "requeue10s" /\ ~IsReady(cr.status)

\* a Project pass got the answer 409 and reported a failed tenant creation
C13_Witness ==
    /\ kind = "Project"
    /\ Settled
    /\ log.called
    /\ log.answer = 409
    /\ cr.status.phase = ProjectPhaseTenantCreationFailed

\* C14 (create-timeline classification): the Branch pass goes on to the
\* compute resources exactly when the answer is 200, 201 or 409; after any
\* other answer or a transport failure no child is synchronized in the pass.
C14_CreateTimelineClassification ==
    (kind = "Branch" /\ log.called) =>
        IF log.answer \in Accepted
        THEN pc = "sync" \/ log.synced
        ELSE ~log.synced /\ pc \in {"return", "idle"} /\ ret = "requeue10s"

\* a Branch pass got the answer 409 and has synchronized its children
C14_Witness ==
    /\ kind = "Branch"
    /\ log.called
    /\ log.answer = 409
    /\ AllSynced
    /\ pc = "return"
    /\ \A n \in ChildNames("Branch") : child[n].exists

\* the Ready condition of a status, when it has one
ReadyCondition(status) ==
    status.conditions[CHOOSE i \in 1..Len(status.conditions) :
                          status.conditions[i].type = "Ready"]

\* C15 (Project attach failure): when the attach-tenant call fails, Reconcile
\* returns a requeue request without error, and the stored phase is
\* PageserverConnectionError after a transport failure and TenantCreationFailed
\* after a failure answer, with Ready=False and a message naming the cause.
C15_ProjectAttachFailure ==
    (kind = "Project" /\ pc = "return" /\ log.called /\ log.answer \notin Accepted) =>
        /\ ret = "requeue10s"
        /\ Settled =>
              /\ ~IsReady(cr.status)
              /\ ReadyFalse(cr.status)
              /\ IF log.answer = 0
                 THEN /\ cr.status.phase = ProjectPhasePageserverConnectionError
                      /\ ReadyCondition(cr.status).reason = "PageserverConnectionError"
                      /\ ReadyCondition(cr.status).message = "Failed to connect to pageserver"
                 ELSE /\ cr.status.phase = ProjectPhaseTenantCreationFailed
                      /\ ReadyCondition(cr.status).reason = "TenantCreationFailed"
                      /\ ReadyCondition(cr.status).message = "Pageserver returned status"

\* a Ready Project could not reach the storage controller and reports it
C15_Witness ==
    /\ kind = "Project"
    /\ Settled
    /\ log.called
    /\ log.answer = 0
    /\ mem.status.phase = ProjectPhasePageserverConnectionError
    /\ cr.status.phase = ProjectPhasePageserverConnectionError
    /\ ret = "requeue10s"

\* C16 (Branch timeline failure): when the create-timeline call fails, the
\* stored phase is TimelineCreationFailed with Ready=False when the pass
\* returns, and Reconcile returns a requeue request without error.
C16_BranchTimelineFailure ==
    (kind = "Branch" /\ Settled /\ log.called /\ log.answer \notin Accepted) =>
        /\ ret = "requeue10s"
        /\ cr.status.phase = BranchPhaseTimelineCreationFailed
        /\ ReadyFalse(cr.status)

\* a Branch pass whose create-timeline call got the answer 500 has returned
\* and the Branch is still reported as Creating
C16_Witness ==
    /\ kind = "Branch"
    /\ Settled
    /\ log.called
    /\ log.answer = 500
    /\ ret = "requeue10s"
    /\ cr.status.phase = BranchPhaseCreating

\* C17 (dependency not ready): a pass that finds its parent missing or not
\* provisioned stores a failure phase with Ready=False and Reconcile returns
\* a requeue request without error.
C17_DependencyNotReady ==
    (Settled /\ ((kind = "Branch" /\ log.noTenant) \/ log.noParent)) =>
        /\ ret \in {"requeue1s", "requeue10s"}
        /\ cr.status.phase \in FailurePhases(kind)
        /\ ReadyFalse(cr.status)

\* a Safekeeper pass did not find its parent Cluster and Reconcile returned an error
C17_Witness ==
    /\ kind = "Safekeeper"
    /\ Settled
    /\ log.noParent
    /\ ret = "error"
    /\ cr.status.phase = SafekeeperPhaseCannotCreateResources

\* C18 (level-triggered status): after a pass that completed every step the
\* resource is in no failure phase, and after a pass one of whose steps failed
\* it is in a failure phase, whatever the phase was before.
C18_LevelTriggeredStatus ==
    Settled =>
        /\ (ret = "empty" /\ ~log.syncFailed) => cr.status.phase \notin FailurePhases(kind)
        /\ (log.syncFailed \/ (log.called /\ log.answer \notin Accepted)) =>
              cr.status.phase \in FailurePhases(kind)

\* a Safekeeper is still reported as failed after a pass that synchronized every child
C18_Witness ==
    /\ kind = "Safekeeper"
    /\ Settled
    /\ ret = "empty"
    /\ AllSynced
    /\ \A n \in ChildNames("Safekeeper") : child[n].exists
    /\ cr.status.phase = SafekeeperPhaseCannotCreateResources

\* a step that ends a write of the resource: the status patch of SetPhases or
\* the identifier self-patch
WriteEnds == pc \in {"SetPhasesPatch", "UpdatePatch"} /\ pc' # pc

\* C19 (shared-resource policy): a write of the resource that follows a read
\* of a revision which is no longer the stored one is not applied.
C19_SharedResourcePolicy ==
    [][(WriteEnds /\ cr.exists /\ cr.rv # cur.rv) => cr' = cr]_vars

\* a step that ends the synchronization of a child
SyncEnds == pc = "sync" /\ (pc' # "sync" \/ step' # step)

\* C20 (drift detection): for an existing child that is compared, a
\* synchronization that returns no error sends no write when every field the
\* intended document sets equals the stored one, and otherwise applies the
\* intended document: its fields overwrite the stored ones, the others stay.
C20_DriftDetection ==
    [][(/\ SyncEnds
        /\ child[Children(kind)[step]].exists
        /\ ~CreateOnly(Children(kind)[step])
        /\ ~log'.syncFailed)
       => LET n == Children(kind)[step]
              stored == child[n].doc
              set == {f \in DocFields : IntendedDoc[f] # ""}
          IN IF \A f \in set : IntendedDoc[f] = stored[f]
             THEN child' = child /\ log'.wrote = log.wrote
             ELSE /\ log'.wrote
                  /\ child'[n].exists
                  /\ \A f \in set : child'[n].doc[f] = IntendedDoc[f]
                  /\ \A f \in DocFields \ set : child'[n].doc[f] = stored[f]
                  /\ \A m \in ChildNames(kind) \ {n} : child'[m] = child[m]]_vars

\* a pass has synchronized every child without error and has written nothing,
\* and a child is left without the labels the intended document sets
C20_Witness ==
    /\ pc = "return"
    /\ ret = "empty"
    /\ log.alone
    /\ AllSynced
    /\ ~log.wrote
    /\ \E n \in ChildNames(kind) :
         /\ child[n].exists
         /\ ~CreateOnly(n)
         /\ child[n].doc.labels = ""

-----------------------------------------------------------------------------
(* Children *)

\* a step of the controller (every one of them moves the pass on)
ControllerStep == pc' # pc \/ step' # step

\* C21 (ownership link): no child exists without a controller owner
\* reference, and a child carries, from the step that creates it, the
\* reference to the resource the pass is reconciling.
C21_OwnershipLink ==
    /\ [](\A n \in ChildNames(kind) : child[n].exists => child[n].owner # 0)
    /\ [][\A n \in ChildNames(kind) :
            (~child[n].exists /\ child'[n].exists) =>
                (mem.uid # 0 /\ child'[n].owner = mem.uid)]_vars

\* the claim of a Safekeeper exists and is owned by the stored Safekeeper
C21_Witness ==
    /\ kind = "Safekeeper"
    /\ cr.exists
    /\ child["pvc"].exists
    /\ child["pvc"].owner = cr.uid
    /\ ~child["pod"].exists

\* C22 (credential secret stability): a step of a Cluster pass changes the
\* secret cluster-<name>-jwt only by creating it when it does not exist; an
\* existing secret, its key pair included, is left as it is.
C22_CredentialSecretStability ==
    [][(/\ kind = "Cluster"
        /\ ControllerStep
        /\ child'["jwt-secret"] # child["jwt-secret"])
       => (~child["jwt-secret"].exists /\ child'["jwt-secret"].exists)]_vars

\* a Cluster pass begun with every child in place has ended after the spec
\* was edited, and the secret holds a generated key pair
C22_Witness ==
    /\ kind = "Cluster"
    /\ pc = "return"
    /\ ~log.fresh
    /\ AllSynced
    /\ log.wrote
    /\ child["jwt-secret"].exists
    /\ child["jwt-secret"].doc.spec \in GenerateKey
    /\ child["storage-controller-deployment"].doc.spec = "v2"

\* C23 (claims are create-only): no step of a Safekeeper or Pageserver pass
\* changes a persistent-volume claim that exists, whatever the spec says.
C23_ClaimCreateOnly ==
    [][(/\ kind \in {"Safekeeper", "Pageserver"}
        /\ ControllerStep
        /\ child["pvc"].exists)
       => child'["pvc"] = child["pvc"]]_vars

\* a Pageserver pass has synchronized every child and has left the claim
\* with a spec other than the one the Pageserver asks for
C23_Witness ==
    /\ kind = "Pageserver"
    /\ Settled
    /\ AllSynced
    /\ child["pvc"].exists
    /\ child["pvc"].doc.spec # cr.spec
    /\ child["pod"].doc.spec = cr.spec

\* C24 (timeline before compute): a compute resource of the stored Branch (a
\* child whose owner reference points to it) exists only if the Branch's
\* spec.timelineID is non-empty and was sent to the storage controller; the
\* step that creates a child belongs to a pass that holds this identifier and
\* whose create-timeline call was answered with success.
C24_TimelineBeforeCompute ==
    /\ []((kind = "Branch" /\ cr.exists) =>
            \A n \in ChildNames(kind) :
                (child[n].exists /\ child[n].owner = cr.uid) =>
                    (cr.id # "" /\ cr.id \in sent))
    /\ [][kind = "Branch" =>
            \A n \in ChildNames(kind) :
                (~child[n].exists /\ child'[n].exists) =>
                    /\ mem.id # ""
                    /\ log.called
                    /\ log.answer \in Accepted
                    /\ (cr.exists /\ cr.uid = mem.uid) => cr.id = mem.id]_vars

\* the compute Deployment of a Branch with a generated timelineID exists
C24_Witness ==
    /\ kind = "Branch"
    /\ cr.exists
    /\ cr.id \in GenerateNeonID
    /\ child["compute-deployment"].exists
    /\ child["compute-deployment"].owner = cr.uid
    /\ log.called
    /\ log.answer = 201

\* C25 (tenant before timeline): the step in which the operator writes a
\* generated timelineID into a Branch is taken only while the Project named by
\* the Branch exists and has a non-empty spec.tenantId.
C25_TenantBeforeTimeline ==
    [][(kind = "Branch" /\ pc = "UpdatePatch" /\ cr'.id # cr.id /\ cr'.id \in GenerateNeonID)
       => (deps.project /\ deps.tenant # "")]_vars

\* a Branch holds a generated timelineID while its Project does not exist
C25_Witness ==
    /\ kind = "Branch"
    /\ cr.exists
    /\ cr.id \in GenerateNeonID
    /\ log.generated
    /\ ~deps.project
    /\ pc = "return"
    /\ ret = "requeue1s"

\* C26 (Cluster first): a controller step that makes a Project or a Branch
\* Ready, or that ends a Safekeeper or Pageserver pass in which every child was
\* synchronized, is taken only while the Cluster referred to has phase Ready.
C26_ClusterFirst ==
    [][(ControllerStep /\ kind # "Cluster") =>
         /\ (kind \in {"Project", "Branch"} /\ ~IsReady(cr.status) /\ IsReady(cr'.status))
                => deps.ready
         /\ (kind \in {"Safekeeper", "Pageserver"} /\ pc = "sync" /\ pc' = "return"
                /\ ret' = "empty" /\ log'.synced /\ ~log'.syncFailed)
                => deps.ready]_vars

\* a Pageserver pass has synchronized every child and returned no error while
\* its Cluster exists without having reached phase Ready
C26_Witness ==
    /\ kind = "Pageserver"
    /\ pc = "return"
    /\ ret = "empty"
    /\ AllSynced
    /\ \A n \in ChildNames(kind) : child[n].exists
    /\ deps.cluster
    /\ ~deps.ready

\* C27 (Branch pass outcome): a Branch pass that ends without error has had
\* its create-timeline call answered with success, has synchronized all four
\* children without error, finds all four in the store and has stored phase
\* Ready; a pass in which a synchronization fails stores phase
\* CannotCreateResources with Ready=False and returns an error.
C27_BranchPassOutcome ==
    (kind = "Branch" /\ Settled) =>
        /\ ret = "empty" =>
              /\ log.called /\ log.answer \in Accepted
              /\ AllSynced
              /\ \A n \in ChildNames("Branch") : child[n].exists
              /\ IsReady(cr.status)
        /\ log.syncFailed =>
              /\ log.called /\ log.answer \in Accepted
              /\ ret = "error"
              /\ cr.status.phase = BranchPhaseCannotCreateResources
              /\ ReadyFalse(cr.status)

\* a Branch pass has created the bootstrap config map, failed on the compute
\* Deployment and reported it
C27_Witness ==
    /\ kind = "Branch"
    /\ Settled
    /\ log.syncFailed
    /\ ret = "error"
    /\ child["compute-spec-configmap"].exists
    /\ ~child["compute-deployment"].exists
    /\ cr.status.phase = BranchPhaseCannotCreateResources

\* a Branch pass has synchronized all four children and stored phase Ready
C27_WitnessReady ==
    /\ kind = "Branch"
    /\ Settled
    /\ ret = "empty"
    /\ AllSynced
    /\ IsReady(cr.status)

-----------------------------------------------------------------------------
(* The status functions on their own (utils/status.go) *)

\* condition types: Ready, and the others a status may carry
OtherTypes == <<"Available", "Progressing", "Degraded">>
CondTypes == {"Ready"} \cup {OtherTypes[i] : i \in 1..MaxOtherTypes}

\* the conditions handed to updateCondition
NewConditions ==
    {Condition(ty, st, re, "", now) :
        ty \in CondTypes, st \in {"True", "False"}, re \in {"AllGood", "NotReady"}}

\* the objects the reconciler reads play no part here
CondInit ==
    /\ Init
    /\ namespace = "default"
    /\ deps = [project |-> TRUE, tenant |-> "t1", cluster |-> TRUE, secret |-> TRUE,
               ready |-> TRUE]

\* updateCondition is applied to the conditions of the status
ApplyUpdateCondition ==
    /\ Len(subject.conditions) < MaxConditions
    /\ \E c \in NewConditions :
         /\ subject' = [subject EXCEPT !.conditions = updateCondition(@, c)]
         /\ call' = [fn |-> "updateCondition", arg |-> c]
    /\ UNCHANGED <<kind, namespace, cr, child, deps, now, env, queue, pc, site, step,
                   mem, cur, proj, ret, sent, log, quiet>>

\* one of the status setters of the kind is applied to the status
ApplySetter ==
    /\ Len(subject.conditions) < MaxConditions
    /\ \E s \in Sites(kind) :
         /\ subject' = StatusFn(kind, s, subject, now)
         /\ call' = [fn |-> s, arg |-> NoCall.arg]
    /\ UNCHANGED <<kind, namespace, cr, child, deps, now, env, queue, pc, site, step,
                   mem, cur, proj, ret, sent, log, quiet>>

CondNext == ApplyUpdateCondition \/ ApplySetter

CondSpec == CondInit /\ [][CondNext]_vars

\* how many conditions of a list have the type
CountType(conditions, type) ==
    Cardinality({i \in 1..Len(conditions) : conditions[i].type = type})

\* C29 (conditions are unique per type): no status holds two conditions of one
\* type, and one that a setter has written holds exactly one of type Ready;
\* updateCondition puts the new condition in the place of the one of its type,
\* leaving the length and the others as they were, or appends it when there is
\* none; a setter leaves one Ready condition with the values it wrote and leaves
\* the conditions of other types as they were.
C29_ConditionsUniquePerType ==
    /\ [](\A ty \in CondTypes : CountType(subject.conditions, ty) <= 1)
    /\ [](subject.phase # "" => CountType(subject.conditions, "Ready") = 1)
    /\ [][call'.fn = "updateCondition" =>
            LET c == call'.arg
                before == subject.conditions
                after == subject'.conditions
            IN  IF \E i \in 1..Len(before) : before[i].type = c.type
                THEN /\ Len(after) = Len(before)
                     /\ \A j \in 1..Len(before) :
                          after[j] = IF before[j].type = c.type THEN c ELSE before[j]
                ELSE /\ Len(after) = Len(before) + 1
                     /\ after[Len(after)] = c
                     /\ \A j \in 1..Len(before) : after[j] = before[j]]_vars
    /\ [][call'.fn \in Sites(kind) =>
            LET before == subject.conditions
                after == subject'.conditions
                r == ReadyCondition(subject')
            IN  /\ subject'.phase # ""
                /\ r.status = (IF call'.fn = "Ready" THEN "True" ELSE "False")
                /\ r.reason \notin {"", "AllGood", "NotReady"}
                /\ Len(after) = Len(before) + (IF CountType(before, "Ready") = 0 THEN 1 ELSE 0)
                /\ \A j \in 1..Len(before) :
                     before[j].type # "Ready" => after[j] = before[j]]_vars

\* a setter wrote the Ready condition, another condition was appended, and
\* updateCondition has then replaced the Ready condition in its place
C29_Witness ==
    /\ subject.phase # ""
    /\ Len(subject.conditions) = 2
    /\ subject.conditions[1].type = "Ready"
    /\ subject.conditions[1].reason = "AllGood"
    /\ subject.conditions[2].type = "Available"
    /\ call.fn = "updateCondition"
    /\ call.arg = subject.conditions[1]

\* the phase of a kind that reports it ready (a Safekeeper or Pageserver has none)
ReadyPhases(k) ==
    CASE k = "Cluster" -> {ClusterPhaseReady}
      [] k = "Project" -> {ProjectPhaseReady}
      [] k = "Branch"  -> {BranchPhaseReady}
      [] OTHER         -> {}

\* the status holds one Ready condition, True exactly in the Ready phase
PhaseAgrees(k, status) ==
    /\ CountType(status.conditions, "Ready") = 1
    /\ ReadyCondition(status).status \in {"True", "False"}
    /\ ReadyCondition(status).status = "True" <=> status.phase \in ReadyPhases(k)

\* C30 (phase and Ready condition agree): every stored status that carries a
\* phase, and every status a controller step writes into the store or builds
\* in memory with a setter, has condition Ready=True if and only if its phase
\* is the Ready phase of the kind.
C30_PhaseAndReadyAgree ==
    /\ []((cr.exists /\ cr.status.phase # "") => PhaseAgrees(kind, cr.status))
    /\ [][(ControllerStep /\ cr'.status # cr.status) =>
             (cr'.status.phase # "" /\ PhaseAgrees(kind, cr'.status))]_vars
    /\ [][(ControllerStep /\ mem'.status # mem.status /\ mem'.status.phase # "") =>
             PhaseAgrees(kind, mem'.status)]_vars

\* a Project pass has replaced a stored Ready=True by the phase
\* PageserverConnectionError with Ready=False
C30_Witness ==
    /\ kind = "Project"
    /\ pc = "return"
    /\ cr.exists
    /\ log.wrote
    /\ log.called
    /\ log.answer = 0
    /\ cr.status.phase = ProjectPhasePageserverConnectionError
    /\ ReadyCondition(cr.status).status = "False"
    /\ ReadyCondition(cr.status).reason = "PageserverConnectionError"

-----------------------------------------------------------------------------
(* The JWT manager on its own (utils/jwtmanager.go) *)

\* ed25519 key pairs: private key k and public key k belong together
KeyPairs == 1..MaxKeys

\* a JWTManager holds a private and a public key, read from the secret
\* independently of each other
Managers == [privateKey : KeyPairs, publicKey : KeyPairs]

\* the claims of a token: a subject and, when hasExp, an expiry time
Claims ==
    {c \in [sub : {"test-subject"}, hasExp : BOOLEAN, exp : 0..MaxTime] :
        ~c.hasExp => c.exp = 0}

\* an EdDSA signature: made with private key `key` over message `msg`; nobody
\* makes a signature of key k without the private key k
Sign(msg, key) == [key |-> key, msg |-> msg]

\* the strings VerifyToken may be handed: wellFormed tells whether the string
\* splits into header, payload and signature that decode
TokenStrings ==
    [wellFormed : BOOLEAN, payload : Claims, sig : [key : KeyPairs, msg : Claims]]

\* GenerateToken: the claims, signed with the manager's private key
GenerateToken(jm, claims) ==
    [wellFormed |-> TRUE, payload |-> claims, sig |-> Sign(claims, jm.privateKey)]

NoClaims == [sub |-> "", hasExp |-> FALSE, exp |-> 0]

\* a VerifyToken that parses without a key
VerifyTokenNoKey(jm, tokenString, t) ==
    IF ~tokenString.wellFormed THEN [err |-> TRUE, claims |-> NoClaims]
    ELSE IF tokenString.payload.hasExp /\ ~(t < tokenString.payload.exp)
    THEN [err |-> TRUE, claims |-> NoClaims]
    ELSE [err |-> FALSE, claims |-> tokenString.payload]

\* VerifyToken at time t: jwt.Parse with the manager's public key parses the
\* string, verifies the signature and (by default) validates the time claims
VerifyToken(jm, tokenString, t) ==
    IF ~tokenString.wellFormed THEN [err |-> TRUE, claims |-> NoClaims]
    ELSE IF tokenString.sig.key # jm.publicKey \/ tokenString.sig.msg # tokenString.payload
    THEN [err |-> TRUE, claims |-> NoClaims]
    ELSE IF tokenString.payload.hasExp /\ ~(t < tokenString.payload.exp)
    THEN [err |-> TRUE, claims |-> NoClaims]
    ELSE [err |-> FALSE, claims |-> tokenString.payload]

\* the objects the reconciler reads play no part here
JWTInit == CondInit

\* a manager signs claims
JWTGenerate ==
    /\ \E jm \in Managers, c \in Claims :
         /\ subject' = [token |-> GenerateToken(jm, c)]
         /\ call' = [fn |-> "GenerateToken", arg |-> [jm |-> jm, claims |-> c]]
    /\ UNCHANGED <<kind, namespace, cr, child, deps, now, env, queue, pc, site, step,
                   mem, cur, proj, ret, sent, log, quiet>>

\* any string arrives from outside
JWTInput ==
    /\ \E tok \in TokenStrings :
         /\ subject' = [token |-> tok]
         /\ call' = [fn |-> "input", arg |-> tok]
    /\ UNCHANGED <<kind, namespace, cr, child, deps, now, env, queue, pc, site, step,
                   mem, cur, proj, ret, sent, log, quiet>>

\* a manager verifies the string at hand
JWTVerify ==
    /\ call.fn \in {"GenerateToken", "input", "VerifyToken"}
    /\ \E jm \in Managers, t \in 0..MaxTime :
         call' = [fn |-> "VerifyToken",
                  arg |-> [jm |-> jm, t |-> t, result |-> VerifyToken(jm, subject.token, t)]]
    /\ UNCHANGED <<subject, kind, namespace, cr, child, deps, now, env, queue, pc, site,
                   step, mem, cur, proj, ret, sent, log, quiet>>

JWTNext == JWTGenerate \/ JWTInput \/ JWTVerify

JWTSpec == JWTInit /\ [][JWTNext]_vars

\* the string is what GenerateToken returns for some claims and a manager whose
\* private key belongs to the public key
ProducedFor(tokenString, publicKey) ==
    \E jm \in Managers, c \in Claims :
        jm.privateKey = publicKey /\ tokenString = GenerateToken(jm, c)

\* C31 (token verification fails closed): VerifyToken accepts a string only
\* if GenerateToken produced it with the private key that belongs to the
\* manager's public key, and the accepted token carries the signed claims; a
\* string signed with another key, a string whose payload is not the signed
\* one and a malformed string are rejected; a produced token whose expiry time
\* has not passed (or that has none) is accepted.
C31_TokenVerificationFailsClosed ==
    call.fn = "VerifyToken" =>
        LET jm == call.arg.jm
            tok == subject.token
            res == call.arg.result
        IN  /\ ~res.err =>
                  /\ ProducedFor(tok, jm.publicKey)
                  /\ res.claims = tok.sig.msg
            /\ (~tok.wellFormed \/ tok.sig.key # jm.publicKey \/ tok.sig.msg # tok.payload)
                  => res.err
            /\ (ProducedFor(tok, jm.publicKey)
                   /\ (tok.payload.hasExp => call.arg.t < tok.payload.exp))
                  => ~res.err

\* C31 as stated: VerifyToken accepts a string if and only if GenerateToken
\* produced it with the private key that belongs to the manager's public key.
C31_AcceptsIffProduced ==
    call.fn = "VerifyToken" =>
        (~call.arg.result.err <=> ProducedFor(subject.token, call.arg.jm.publicKey))

\* a manager has accepted a token with an expiry time that a manager holding
\* the matching private key produced
C31_Witness ==
    /\ call.fn = "VerifyToken"
    /\ ~call.arg.result.err
    /\ call.arg.result.claims.sub = "test-subject"
    /\ subject.token.payload.hasExp
    /\ subject.token.sig.key = call.arg.jm.publicKey

\* C32 (storage-unit reconcile succeeds on a fresh resource): the first pass
\* of a newly created Safekeeper whose Cluster exists, and of a newly created
\* Pageserver whatever else exists, returns no error when no request fails.
C32_FreshStorageUnit ==
    (/\ kind \in {"Safekeeper", "Pageserver"}
     /\ pc = "return"
     /\ log.fresh
     /\ log.calm
     /\ kind = "Safekeeper" => deps.cluster)
        => ret = "empty"

\* the first pass of a Pageserver created on its own, without bucket secret
\* and Cluster, has returned an error although no request failed
C32_Witness ==
    /\ kind = "Pageserver"
    /\ pc = "return"
    /\ log.fresh
    /\ log.calm
    /\ ~deps.secret
    /\ ~deps.cluster
    /\ ret = "error"
    /\ \A n \in ChildNames(kind) : ~child[n].exists

\* C33 (SetPhases decides against the fresh read): when a SetPhases call
\* returns nil and nobody has written the resource since the call read it, the
\* stored status is the status the setter yields on the revision read, and the
\* caller's in-memory status equals the stored one.
C33_DecidesAgainstFreshRead ==
    [][(SetPhasesEnds /\ ~log.lost /\ ~log'.lost /\ cr.exists /\ cr.rv = cur.rv) =>
          /\ cr'.status = Serialize(StatusFn(kind, site, cur.status, now))
          /\ mem'.status = cr'.status]_vars

\* a pass holds a status in memory that is no longer the stored one, and its
\* SetPhases call has returned nil without sending a patch
C33_Witness ==
    /\ pc = "return"
    /\ cr.exists
    /\ cr.uid = mem.uid
    /\ ~log.lost
    /\ ~log.wrote
    /\ ret = "empty"
    /\ kind = "Cluster"
    /\ IsReady(mem.status)
    /\ ~IsReady(cr.status)

\* C34 (status write failures are reconciliation failures): a pass in which a
\* SetPhases call has returned an error ends with Reconcile returning an error.
C34_StatusWriteFailureIsError ==
    (pc = "return" /\ log.lost) => ret = "error"

\* a Project pass whose status write after a failed tenant call was refused
\* has returned a requeue request without error
C34_Witness ==
    /\ kind = "Project"
    /\ pc = "return"
    /\ log.lost
    /\ log.called
    /\ log.answer \in {0, 500}
    /\ ret = "requeue10s"

\* a step in which the first status write of a pass (Pending or Creating) fails
FirstWriteFails ==
    /\ pc \in {"SetPhases", "SetPhasesPatch"}
    /\ site \in {"Pending", "Creating"}
    /\ ~log.lost
    /\ log'.lost

\* C35 (status update failures do not interrupt reconciliation): when the
\* first status write of a pass fails, the pass does not end there: it goes on
\* to the next step of reconcile.
C35_StatusFailureDoesNotInterrupt ==
    [][FirstWriteFails => pc' # "return"]_vars

\* a Pageserver pass has ended with an error on its first status write, before
\* any child was synchronized
C35_Witness ==
    /\ kind = "Pageserver"
    /\ pc = "return"
    /\ log.fresh
    /\ log.lost
    /\ ~log.synced
    /\ ret = "error"
    /\ cr.exists
    /\ cr.status.phase = ""

\* C36 (the identifier self-patch changes only the identifier): the step that
\* persists a generated identifier leaves the stored status and the rest of
\* the stored spec as they are in the store at that moment, and the step that
\* patches the status leaves the stored spec and identifier as they are.
C36_SelfPatchFrame ==
    /\ [][(pc = "UpdatePatch" /\ ControllerStep /\ cr' # cr) =>
             /\ cr'.id \in GenerateNeonID
             /\ cr'.spec = cr.spec
             /\ cr'.status = cr.status
             /\ cr'.exists = cr.exists /\ cr'.uid = cr.uid]_vars
    /\ [][(pc = "SetPhasesPatch" /\ ControllerStep /\ cr' # cr) =>
             /\ cr'.id = cr.id
             /\ cr'.spec = cr.spec
             /\ cr'.exists = cr.exists /\ cr'.uid = cr.uid]_vars

\* a Branch pass has persisted a timelineID after somebody else edited the
\* spec the pass had read, and the edit is still there
C36_Witness ==
    /\ kind = "Branch"
    /\ pc = "return"
    /\ ret = "requeue1s"
    /\ log.generated
    /\ cr.exists
    /\ cr.uid = mem.uid
    /\ cr.id = mem.id
    /\ cr.id \in GenerateNeonID
    /\ cr.spec # mem.spec

\* C37 (Pageserver synchronization order): in a Pageserver pass that began
\* with no children and in which nobody else acted, the config map exists only
\* if the volume claim has been synchronized before it, and no child exists
\* when the pass has found the parent Cluster missing.
C37_PageserverOrder ==
    (kind = "Pageserver" /\ pc \in {"sync", "SetPhases", "SetPhasesPatch", "return"}
        /\ log.fresh /\ log.alone) =>
        /\ child["configmap"].exists => child["pvc"].exists
        /\ log.noParent => \A n \in ChildNames("Pageserver") : ~child[n].exists

\* a fresh Pageserver pass has created the config map and the volume claim
\* and has then failed on the Pod because the parent Cluster does not exist
C37_Witness ==
    /\ kind = "Pageserver"
    /\ pc = "return"
    /\ log.fresh
    /\ log.alone
    /\ log.noParent
    /\ ~deps.cluster
    /\ child["configmap"].exists
    /\ child["pvc"].exists
    /\ ~child["pod"].exists
    /\ ~child["service"].exists

\* C38 (sequential steps, first failure aborts): the synchronization steps of
\* a pass are taken one after another in the order of Children, each once;
\* once a step has failed, no later step of the pass creates or patches a
\* child; and the storage-controller Deployment of a Cluster is created only
\* by the second step of a pass whose first step, the credential secret, has
\* succeeded.
C38_SequentialFirstFailureAborts ==
    /\ [][(pc = "sync" /\ ControllerStep) =>
             /\ step \in 1..Len(Children(kind))
             /\ pc' = "sync" => (step' = step + 1 /\ ~log'.syncFailed)
             /\ log'.syncFailed => pc' # "sync"]_vars
    /\ [][(log.syncFailed /\ ControllerStep) => child' = child]_vars
    /\ [][(/\ kind = "Cluster"
            /\ ~child["storage-controller-deployment"].exists
            /\ child'["storage-controller-deployment"].exists) =>
             /\ pc = "sync" /\ step = 2
             /\ log.synced /\ ~log.syncFailed]_vars

\* a Cluster pass has created the credential secret and the storage-controller
\* Deployment, has failed on its Service, and has left the storage broker alone
C38_Witness ==
    /\ kind = "Cluster"
    /\ pc = "return"
    /\ log.fresh
    /\ log.alone
    /\ log.syncFailed
    /\ child["jwt-secret"].exists
    /\ child["storage-controller-deployment"].exists
    /\ ~child["storage-controller-service"].exists
    /\ ~child["storage-broker-deployment"].exists
    /\ ~child["storage-broker-service"].exists

\* C39 (write footprint of a pass): a controller step deletes neither the
\* resource nor a child, leaves the objects the reconciler only reads (Project,
\* Cluster, secrets) as they are, and changes children only in a
\* synchronization step, and then only the child that step targets.
C39_WriteFootprint ==
    [][ControllerStep =>
         /\ deps' = deps
         /\ cr.exists => (cr'.exists /\ cr'.uid = cr.uid)
         /\ \A n \in ChildNames(kind) : child[n].exists => child'[n].exists
         /\ child' # child =>
               /\ pc = "sync"
               /\ \A n \in ChildNames(kind) \ {Children(kind)[step]} :
                    child'[n] = child[n]]_vars

\* a Branch pass is about to synchronize the admin Service, having created the
\* config map and the compute Deployment while its Project and Cluster stand by
C39_Witness ==
    /\ kind = "Branch"
    /\ pc = "sync"
    /\ step = 3
    /\ log.fresh
    /\ log.alone
    /\ log.wrote
    /\ deps.project /\ deps.cluster
    /\ child["compute-spec-configmap"].exists
    /\ child["compute-deployment"].exists
    /\ ~child["admin-service"].exists
    /\ ~child["postgres-service"].exists

\* C40 (Cluster lookup of the Branch controller): the Cluster and its
\* credential secret are looked up in namespace "neon"; where the Cluster
\* lives in another namespace, no child of a Branch is ever created, every
\* pass that gets as far as the config map fails there and returns an error,
\* leaving phase CannotCreateResources with Ready=False, and no controller
\* step makes the Branch Ready.
C40_BranchClusterLookup ==
    /\ []((kind = "Branch" /\ namespace # "neon") =>
            /\ \A n \in ChildNames("Branch") : ~child[n].exists
            /\ log.synced => (log.syncFailed /\ pc # "sync")
            /\ (log.synced /\ pc = "return") => ret = "error"
            /\ (log.synced /\ Settled) =>
                  /\ cr.status.phase = BranchPhaseCannotCreateResources
                  /\ ReadyFalse(cr.status))
    /\ [][(kind = "Branch" /\ namespace # "neon" /\ ControllerStep
              /\ cr'.status # cr.status) => ~IsReady(cr'.status)]_vars

\* C40 as stated: where the Cluster is not in namespace "neon", every pass of
\* a Branch whose Project exists, in which nothing fails from outside, returns
\* an error and leaves phase CannotCreateResources.
C40_EveryPassFails ==
    (kind = "Branch" /\ namespace # "neon" /\ pc = "return" /\ cr.exists
        /\ deps.project /\ deps.tenant # "" /\ ~log.absent /\ log.calm) =>
        /\ ret = "error"
        /\ cr.status.phase = BranchPhaseCannotCreateResources

\* a Branch outside "neon" has had its timeline created and has then failed on
\* the config map, its Cluster not being found in "neon"
C40_Witness ==
    /\ kind = "Branch"
    /\ namespace = "default"
    /\ deps.cluster
    /\ Settled
    /\ log.called
    /\ log.answer \in {200, 201}
    /\ log.synced
    /\ log.syncFailed
    /\ ret = "error"
    /\ cr.status.phase = BranchPhaseCannotCreateResources
    /\ \A n \in ChildNames("Branch") : ~child[n].exists

====
